---------------------------- MODULE Spec2Model ----------------------------
(***************************************************************************)
(* A model of GroClient (src/api/client/gro_client.py): the name-based     *)
(* series resolution sweep (find_data_series), the unit conversion         *)
(* (convert_unit) and the data frame accumulator (add_single_data_series,  *)
(* get_df, add_points_to_df).                                              *)
(*                                                                         *)
(* Encoding of Python values.  An optional scalar is a sequence: None (and *)
(* NaN / NaT in a data frame) is <<>>, the integer k is <<k>>, a number    *)
(* that takes part in arithmetic is the fraction <<n, d>> in lowest terms  *)
(* with d > 0.  Python computes on floats; the model computes on exact     *)
(* fractions, so "equal" here is what the code gets up to rounding.        *)
(* A dict with optional keys is a record whose absent keys hold <<>>,      *)
(* except where the code tells an absent key from a None value.            *)
(***************************************************************************)
EXTENDS Integers, Sequences, FiniteSets

VARIABLES
    \* ---- convert_unit ----
    point,              \* the data point dict handed to convert_unit (mutated in place)
    conv_hist,          \* one record per convert_unit call made so far
    \* ---- find_data_series ----
    kwargs,             \* the name queries of the call: dimension -> query
    search_len,         \* how many entities search() returns per dimension
    fail_at,            \* which get_data_series call raises (0: none)
    find_pc,            \* "ready" before the call, "returned" or "raised" after
    lookups,            \* the entity combinations passed to get_data_series, in order
    yielded,            \* the data series yielded, in order
    \* ---- accumulator ----
    heap,               \* the caller's data series dicts: object id -> dict
    data_series_list,   \* self._data_series_list: object ids
    data_series_queue,  \* self._data_series_queue: object ids
    data_frame,         \* self._data_frame
    pc,                 \* "idle", or "get_df" inside get_df's while loop
    show_rev,           \* the show_revisions argument of the running get_df
    last,               \* how the last get_df ended: "none", "returned", "raised"
    fetch_log,          \* the fetches made, in order: the dict and the server's answer
    failed_ever,        \* whether any fetch has raised so far
    at_call,            \* the queue and the length of fetch_log when get_df was called
    \* ---- folding fetched points into the table ----
    batches,            \* the pending series with their answers, in fetch order
    fold_order,         \* another fetch order: a permutation of the places of batches
    folded              \* None, or the table of either order

conv_vars == <<point, conv_hist>>
find_vars == <<kwargs, search_len, fail_at, find_pc, lookups, yielded>>
acc_vars  == <<heap, data_series_list, data_series_queue, data_frame, pc,
               show_rev, last, fetch_log, failed_ever, at_call>>
fold_vars == <<batches, fold_order, folded>>
vars == <<conv_vars, find_vars, acc_vars, fold_vars>>

None == <<>>
IsNone(v) == Len(v) = 0

-----------------------------------------------------------------------------
(* Exact fractions <<n, d>>, d > 0, in lowest terms.                       *)

Abs(n) == IF n < 0 THEN -n ELSE n

RECURSIVE GCD(_, _)
GCD(a, b) == IF b = 0 THEN a ELSE GCD(b, a % b)

Norm(n, d) ==
    LET s == IF d < 0 THEN -1 ELSE 1
        g == GCD(Abs(n), Abs(d))
    IN  <<(s * n) \div g, (s * d) \div g>>

Rat(n)     == <<n, 1>>
RAdd(a, b) == Norm(a[1] * b[2] + b[1] * a[2], a[2] * b[2])
RSub(a, b) == Norm(a[1] * b[2] - b[1] * a[2], a[2] * b[2])
RMul(a, b) == Norm(a[1] * b[1], a[2] * b[2])
RDiv(a, b) == Norm(a[1] * b[2], a[2] * b[1])
IsZero(a)  == a[1] = 0

-----------------------------------------------------------------------------
(* convert_unit                                                            *)

MaxConvertCalls == 2

\* The unit catalogue served by lookup('units', id): the baseConvFactor dict
\* of each unit, an absent key being None.
UnitIds == 1 .. 6

LookupUnit(unit_id) ==
    CASE unit_id = 1 -> [factor |-> Rat(1000),  offset |-> Rat(0)]
      [] unit_id = 2 -> [factor |-> Rat(1),     offset |-> Rat(0)]
      [] unit_id = 3 -> [factor |-> <<5, 9>>,   offset |-> Rat(32)]
      [] unit_id = 4 -> [factor |-> Rat(3),     offset |-> None]
      [] unit_id = 5 -> [factor |-> Rat(0),     offset |-> Rat(0)]
      [] OTHER       -> [factor |-> None,       offset |-> None]

\* `not cf.get('factor')`: the factor is absent or zero.
NoFactor(cf) == IsNone(cf.factor) \/ IsZero(cf.factor)

\* cf.get('offset', 0)
OffsetOf(cf) == IF IsNone(cf.offset) THEN Rat(0) ELSE cf.offset

\* Mutants of ConvertedValue: the offsets dropped; the base-unit hop inverted.
ConvertedValueNoOffset(value, from, to) ==
    RDiv(RMul(value, from.factor), to.factor)

ConvertedValueNoTargetOffset(value, from, to) ==
    RDiv(RAdd(RMul(value, from.factor), OffsetOf(from)), to.factor)

\* value_in_base_unit = value * from.factor + from.offset;
\* float(value_in_base_unit - to.offset) / to.factor
ConvertedValue(value, from, to) ==
    LET value_in_base_unit == RAdd(RMul(value, from.factor), OffsetOf(from))
    IN  RDiv(RSub(value_in_base_unit, OffsetOf(to)), to.factor)

\* Mutant of IsIdentityCase: a point already in the target unit is converted.
IsIdentityCaseNoneOnly(pt, target) == IsNone(pt.unit_id)

\* point.get('unit_id') is None or point.get('unit_id') == target_unit_id
IsIdentityCase(pt, target) == IsNone(pt.unit_id) \/ pt.unit_id = <<target>>

\* Mutant of ConvertUnit: the point is relabelled before the target is checked.
ConvertUnitRelabelFirst(pt, target) ==
    IF IsIdentityCase(pt, target)
    THEN [outcome |-> "returned", point |-> pt, looked_up |-> <<>>]
    ELSE LET from == LookupUnit(pt.unit_id[1])
             to   == LookupUnit(target)
         IN  IF NoFactor(from)
             THEN [outcome |-> "raised", point |-> pt,
                   looked_up |-> <<pt.unit_id[1]>>]
             ELSE IF NoFactor(to)
             THEN [outcome |-> "raised",
                   point |-> [pt EXCEPT !.unit_id = <<target>>],
                   looked_up |-> <<pt.unit_id[1], target>>]
             ELSE [outcome |-> "returned",
                   point |-> [pt EXCEPT
                       !.value = IF IsNone(pt.value) THEN pt.value
                                 ELSE ConvertedValue(pt.value, from, to),
                       !.unit_id = <<target>>],
                   looked_up |-> <<pt.unit_id[1], target>>]

\* convert_unit(point, target_unit_id): how the call ends, the point dict
\* after the call (the dict is updated in place and is the return value),
\* and the unit ids looked up.
ConvertUnit(pt, target) ==
    IF IsIdentityCase(pt, target)
    THEN [outcome |-> "returned", point |-> pt, looked_up |-> <<>>]
    ELSE LET from == LookupUnit(pt.unit_id[1])
             to   == LookupUnit(target)
         IN  IF NoFactor(from)
             THEN [outcome |-> "raised", point |-> pt,
                   looked_up |-> <<pt.unit_id[1]>>]
             ELSE IF NoFactor(to)
             THEN [outcome |-> "raised", point |-> pt,
                   looked_up |-> <<pt.unit_id[1], target>>]
             ELSE [outcome |-> "returned",
                   point |-> [pt EXCEPT
                       !.value = IF IsNone(pt.value) THEN pt.value
                                 ELSE ConvertedValue(pt.value, from, to),
                       !.unit_id = <<target>>],
                   looked_up |-> <<pt.unit_id[1], target>>]

PointValues == {None, Rat(100), Rat(0), <<-3, 2>>}
PointUnits  == {None} \cup {<<u>> : u \in UnitIds}
Points ==
    [value : PointValues, unit_id : PointUnits, end_date : {"2017-12-31"}]

\* The state the convert_unit variables keep while another operation is studied.
ConvUnused == point = None /\ conv_hist = <<>>

InitConvertVars == point \in Points /\ conv_hist = <<>>

\* One call convert_unit(point, target_unit_id) by the caller.
ConvertUnitCall(target) ==
    /\ Len(conv_hist) < MaxConvertCalls
    /\ LET res == ConvertUnit(point, target)
       IN  /\ point' = res.point
           /\ conv_hist' = Append(conv_hist,
                  [before |-> point, target |-> target, outcome |-> res.outcome,
                   after |-> res.point, looked_up |-> res.looked_up])
    /\ UNCHANGED <<find_vars, acc_vars, fold_vars>>

NextConvert == \E target \in UnitIds : ConvertUnitCall(target)

-----------------------------------------------------------------------------
(* find_data_series                                                        *)

MAX_RESULT_COMBINATION_DEPTH == 3

MaxSearchLen == 4   \* search() returns at most this many entities
MaxFailAt == 2      \* the get_data_series call that raises is among the first MaxFailAt

\* The four name queries in the order the code reads them, and the key each
\* one contributes to the entities dict.
Dims == <<"item", "metric", "region", "partner_region">>
DimSet == {Dims[i] : i \in 1 .. Len(Dims)}

KeyOf(dim) == CASE dim = "item"   -> "item_id"
                [] dim = "metric" -> "metric_id"
                [] dim = "region" -> "region_id"
                [] OTHER          -> "partner_region_id"

\* kwargs.get(name): truthy unless the argument is missing or the empty string.
Truthy(q) == ~IsNone(q) /\ q[1] # ""

\* The id of the i-th entity the search engine ranks for a dimension's query;
\* the ranking order is not the order of the ids.
EntityAt(dim, i) ==
    (CASE dim = "item" -> 270 [] dim = "metric" -> 860 [] dim = "region" -> 1210
       [] OTHER -> 1300) + ((3 * i) % 7)

\* self.search(type, text): the ranked entities, here their ids.
Search(dim) == [i \in 1 .. search_len[dim] |-> EntityAt(dim, i)]

\* Mutant of Truncate: one result more than the depth is kept.
TruncateOneMore(results) ==
    SubSeq(results, 1,
           IF Len(results) < MAX_RESULT_COMBINATION_DEPTH + 1 THEN Len(results)
           ELSE MAX_RESULT_COMBINATION_DEPTH + 1)

\* results[:cfg.MAX_RESULT_COMBINATION_DEPTH]
Truncate(results) ==
    SubSeq(results, 1,
           IF Len(results) < MAX_RESULT_COMBINATION_DEPTH THEN Len(results)
           ELSE MAX_RESULT_COMBINATION_DEPTH)

\* The dimensions whose query is supplied, in the order of the four ifs.
RECURSIVE SuppliedFrom(_, _)
SuppliedFrom(kw, i) ==
    IF i > Len(Dims) THEN <<>>
    ELSE (IF Truthy(kw[Dims[i]]) THEN <<Dims[i]>> ELSE <<>>)
         \o SuppliedFrom(kw, i + 1)

Supplied(kw) == SuppliedFrom(kw, 1)

\* search_results and keys as built by the four ifs.
SearchResults(kw) ==
    LET sup == Supplied(kw)
    IN  [j \in 1 .. Len(sup) |-> Truncate(Search(sup[j]))]

Keys(kw) ==
    LET sup == Supplied(kw)
    IN  [j \in 1 .. Len(sup) |-> KeyOf(sup[j])]

\* [x + (y,) for x in result for y in pool]
RECURSIVE ExtendAll(_, _)
ExtendAll(result, pool) ==
    IF result = <<>> THEN <<>>
    ELSE [j \in 1 .. Len(pool) |-> Append(Head(result), pool[j])]
         \o ExtendAll(Tail(result), pool)

\* Mutant of Product: the last pool varies slowest.
RECURSIVE ProductLastSlowest(_)
ProductLastSlowest(pools) ==
    IF pools = <<>> THEN << <<>> >>
    ELSE LET rest == ProductLastSlowest(Tail(pools))
             RECURSIVE Each(_)
             Each(i) == IF i > Len(rest) THEN <<>>
                        ELSE [j \in 1 .. Len(Head(pools)) |->
                                 <<Head(pools)[j]>> \o rest[i]] \o Each(i + 1)
         IN  Each(1)

\* itertools.product(*pools): result = [[]], then one ExtendAll per pool.
RECURSIVE Product(_)
Product(pools) ==
    IF pools = <<>> THEN << <<>> >>
    ELSE ExtendAll(Product(SubSeq(pools, 1, Len(pools) - 1)), pools[Len(pools)])

KeySet(keys) == {keys[j] : j \in 1 .. Len(keys)}

\* dict(zip(keys, [entity['id'] for entity in comb]))
Entities(keys, comb) ==
    [k \in KeySet(keys) |-> comb[CHOOSE j \in 1 .. Len(keys) : keys[j] = k]]

\* self.get_data_series(**entities) of a catalogue in which the series of a
\* combination are set by its ids: none, one, or two with different sources.
\* An id the caller leaves out is filled by the catalogue.
IdIn(entities, key, dflt) ==
    IF key \in DOMAIN entities THEN entities[key] ELSE dflt

SeriesOf(entities, source_id) ==
    [item_id |-> IdIn(entities, "item_id", 274),
     metric_id |-> IdIn(entities, "metric_id", 860),
     region_id |-> IdIn(entities, "region_id", 1215),
     partner_region_id |-> IdIn(entities, "partner_region_id", 0),
     frequency_id |-> 9,
     source_id |-> source_id,
     start_date |-> <<"1972-03-01">>,
     end_date |-> <<"2022-12-31">>]

GetDataSeries(entities) ==
    LET sum == IdIn(entities, "item_id", 0) + IdIn(entities, "metric_id", 0)
               + IdIn(entities, "region_id", 0)
               + IdIn(entities, "partner_region_id", 0)
    IN  CASE sum % 3 = 0 -> <<SeriesOf(entities, 14), SeriesOf(entities, 2)>>
          [] sum % 3 = 1 -> <<SeriesOf(entities, 14)>>
          [] OTHER       -> <<>>

\* The source precedence the ranking applies, best first.
SourceOrder == <<2, 14>>

RECURSIVE RankFrom(_, _)
RankFrom(series_list, i) ==
    IF i > Len(SourceOrder) THEN <<>>
    ELSE SelectSeq(series_list, LAMBDA ds : ds.source_id = SourceOrder[i])
         \o RankFrom(series_list, i + 1)

\* self.rank_series_by_source(series_list): the same series, best source
\* first, the order inside a source kept.
RankSeriesBySource(series_list) == RankFrom(series_list, 1)

\* The time range of the call stamped on one data series.
Stamp(kw, ds) ==
    [ds EXCEPT
        !.start_date = IF Truthy(kw.start_date) THEN kw.start_date ELSE @,
        !.end_date   = IF Truthy(kw.end_date) THEN kw.end_date ELSE @]

StampAll(kw, data_series_list_) ==
    [j \in 1 .. Len(data_series_list_) |-> Stamp(kw, data_series_list_[j])]

\* The for loop over the combinations from the call-th one on: looked holds
\* the entities passed to get_data_series so far, all_data_series what the
\* lookups returned.  The failing-th get_data_series call raises, and the
\* exception leaves find_data_series.
RECURSIVE Sweep(_, _, _, _, _, _, _)
Sweep(kw, keys, combs, call, failing, looked, all_data_series) ==
    IF call > Len(combs)
    THEN [outcome |-> "returned", lookups |-> looked,
          yielded |-> RankSeriesBySource(all_data_series)]
    ELSE LET entities == Entities(keys, combs[call])
         IN  IF call = failing
             THEN [outcome |-> "raised", lookups |-> Append(looked, entities),
                   yielded |-> <<>>]
             ELSE Sweep(kw, keys, combs, call + 1, failing,
                        Append(looked, entities),
                        all_data_series \o StampAll(kw, GetDataSeries(entities)))

\* find_data_series(**kwargs), iterated to its end by the caller.
FindDataSeries(kw, failing) ==
    Sweep(kw, Keys(kw), Product(SearchResults(kw)), 1, failing, <<>>, <<>>)

Queries == {None, <<"">>, <<"corn">>}
DateArgs == {None, <<"2000-01-01">>}

KwargsSet ==
    [item : Queries, metric : Queries, region : Queries,
     partner_region : Queries, start_date : DateArgs, end_date : DateArgs]

FindUnused ==
    /\ kwargs = None /\ search_len = None /\ fail_at = 0
    /\ find_pc = "unused" /\ lookups = <<>> /\ yielded = <<>>

\* search() is called for the supplied dimensions only.
InitFindVars ==
    /\ kwargs \in KwargsSet
    /\ search_len \in [DimSet -> 0 .. MaxSearchLen]
    /\ \A d \in DimSet : ~Truthy(kwargs[d]) => search_len[d] = 0
    /\ fail_at \in 0 .. MaxFailAt
    /\ find_pc = "ready"
    /\ lookups = <<>>
    /\ yielded = <<>>

FindDataSeriesCall ==
    /\ find_pc = "ready"
    /\ LET res == FindDataSeries(kwargs, fail_at)
       IN  /\ find_pc' = res.outcome
           /\ lookups' = res.lookups
           /\ yielded' = res.yielded
    /\ UNCHANGED <<kwargs, search_len, fail_at, conv_vars, acc_vars, fold_vars>>

NextFind == FindDataSeriesCall

-----------------------------------------------------------------------------
(* The accumulator: add_single_data_series, get_df, add_points_to_df       *)

MaxAdds == 2        \* add_single_data_series is called at most this often

DATA_POINTS_UNIQUE_COLS ==
    {"item_id", "metric_id", "region_id", "partner_region_id", "frequency_id",
     "source_id", "reporting_date", "start_date", "end_date"}

\* The data series dicts the caller holds.  Objects 1 and 2 select the same
\* series, object 2 asking for unit 2; show_revisions is the key get_df sets.
SeriesObjs == 1 .. 3

Descriptor(o) ==
    [item_id |-> IF o <= 2 THEN 274 ELSE 270,
     source_id |-> IF o <= 2 THEN 2 ELSE 14,
     unit_id |-> IF o = 2 THEN <<2>> ELSE None,
     show_revisions |-> FALSE]

\* What the server answers to one get_data_points request.
Responses == {"fail", "empty", "one", "revised", "two", "nonconv"}

ServerPoint(ds, end_date, value, unit_id) ==
    IF ds.show_revisions
    THEN [item_id |-> <<ds.item_id>>, end_date |-> <<end_date>>,
          value |-> Rat(value), unit_id |-> <<unit_id>>,
          reporting_date |-> <<"2018-01-15">>]
    ELSE [item_id |-> <<ds.item_id>>, end_date |-> <<end_date>>,
          value |-> Rat(value), unit_id |-> <<unit_id>>]

\* Client.get_data_points(**selections): the points of the answer; the
\* answer "fail" is the request raising.
ServerPoints(ds, r) ==
    CASE r = "one"     -> <<ServerPoint(ds, "2017-12-31", 100, 1)>>
      [] r = "revised" -> <<ServerPoint(ds, "2017-12-31T00:00:00.000Z", 120, 1)>>
      [] r = "two"     -> <<ServerPoint(ds, "2017-12-31", 100, 1),
                            ServerPoint(ds, "2018-12-31", 200, 1)>>
      [] r = "nonconv" -> <<ServerPoint(ds, "2018-12-31", 7, 5)>>
      [] OTHER         -> <<>>

\* GroClient.get_data_points(**selections): the points, each converted to
\* selections['unit_id'] when that key is there; a failing request or a
\* failing conversion raises.
GetDataPoints(ds, r) ==
    IF r = "fail" THEN [outcome |-> "raised", points |-> <<>>]
    ELSE LET data_points == ServerPoints(ds, r)
         IN  IF IsNone(ds.unit_id)
             THEN [outcome |-> "returned", points |-> data_points]
             ELSE LET conv == [j \in 1 .. Len(data_points) |->
                                  ConvertUnit(data_points[j], ds.unit_id[1])]
                  IN  IF \E j \in 1 .. Len(conv) : conv[j].outcome = "raised"
                      THEN [outcome |-> "raised", points |-> <<>>]
                      ELSE [outcome |-> "returned",
                            points |-> [j \in 1 .. Len(conv) |-> conv[j].point]]

\* A data frame: its columns and the bag of its rows (row -> how often);
\* the order of the rows is left open.
EmptyFrame == [cols |-> {}, rows |-> <<>>]

IsEmpty(df) == DOMAIN df.rows = {} \/ df.cols = {}

BagOfSeq(seq) ==
    [row \in {seq[j] : j \in DOMAIN seq} |->
        Cardinality({j \in DOMAIN seq : seq[j] = row})]

\* pandas.to_datetime of one cell: the instant a date string names, as a
\* day number; None becomes NaT.
ToDatetime(v) ==
    IF IsNone(v) THEN None
    ELSE CASE v[1] = "2017-12-31"               -> <<17531>>
           [] v[1] = "2017-12-31T00:00:00.000Z" -> <<17531>>
           [] v[1] = "2018-12-31"               -> <<17896>>
           [] v[1] = "2018-01-15"               -> <<17546>>
           [] OTHER                             -> <<0>>

DateCols == {"end_date", "start_date", "reporting_date"}

\* The columns of pandas.DataFrame(data=data_points): every key of a point.
RawCols(data_points) ==
    UNION {DOMAIN data_points[j] : j \in DOMAIN data_points}

\* tmp.empty: no row, or no column.
TmpIsEmpty(data_points) == data_points = <<>> \/ RawCols(data_points) = {}

\* tmp of add_points_to_df once it is known not to be empty: a row per point,
\* a key a point lacks being None, with the source_id column set from the
\* data series and the date columns parsed.
TmpFrame(data_series, data_points) ==
    LET all_cols == RawCols(data_points) \cup {"source_id"}
        Cell(pt, c) ==
            IF c = "source_id" THEN <<data_series.source_id>>
            ELSE IF c \notin DOMAIN pt THEN None
            ELSE IF c \in DateCols THEN ToDatetime(pt[c])
            ELSE pt[c]
    IN  [cols |-> all_cols,
         rows |-> BagOfSeq([j \in DOMAIN data_points |->
                               [c \in all_cols |-> Cell(data_points[j], c)]])]

Restrict(row, cols) == [c \in cols |-> row[c]]

\* left.merge(right, how='outer'): the join is on all the columns the two
\* frames share (both hold source_id, so there is one), None matching None;
\* a row without partner keeps None in the other frame's columns; n equal
\* left rows and m equal right rows that match give n * m rows.
MergeOuter(left, right) ==
    LET on == left.cols \cap right.cols
        cols == left.cols \cup right.cols
        Matches(l, r) == \A c \in on : l[c] = r[c]
        Both(l, r) == [c \in cols |-> IF c \in left.cols THEN l[c] ELSE r[c]]
        OnlyL(l) == [c \in cols |-> IF c \in left.cols THEN l[c] ELSE None]
        OnlyR(r) == [c \in cols |-> IF c \in right.cols THEN r[c] ELSE None]
        rows == {Both(l, r) : <<l, r>> \in
                    {p \in (DOMAIN left.rows) \X (DOMAIN right.rows) :
                        Matches(p[1], p[2])}}
                \cup {OnlyL(l) : l \in
                    {x \in DOMAIN left.rows :
                        \A r \in DOMAIN right.rows : ~Matches(x, r)}}
                \cup {OnlyR(r) : r \in
                    {x \in DOMAIN right.rows :
                        \A l \in DOMAIN left.rows : ~Matches(l, x)}}
        Count(row) ==
            LET l == Restrict(row, left.cols)
                r == Restrict(row, right.cols)
            IN  IF l \in DOMAIN left.rows /\ r \in DOMAIN right.rows
                THEN left.rows[l] * right.rows[r]
                ELSE IF l \in DOMAIN left.rows THEN left.rows[l]
                ELSE right.rows[r]
    IN  [cols |-> cols, rows |-> [row \in rows |-> Count(row)]]

\* add_points_to_df(None, data_series, data_points): the new self._data_frame.
\* The frame set_index returns at line 96 is dropped, so it changes nothing.
AddPointsToDf(df, data_series, data_points) ==
    IF TmpIsEmpty(data_points) THEN df
    ELSE IF IsEmpty(df) THEN TmpFrame(data_series, data_points)
    ELSE MergeOuter(df, TmpFrame(data_series, data_points))

InitAccVars ==
    /\ heap = [o \in SeriesObjs |-> Descriptor(o)]
    /\ data_series_list = <<>>
    /\ data_series_queue = <<>>
    /\ data_frame = EmptyFrame
    /\ pc = "idle"
    /\ show_rev = FALSE
    /\ last = "none"
    /\ fetch_log = <<>>
    /\ failed_ever = FALSE
    /\ at_call = [queue |-> <<>>, fetched |-> 0]

\* add_single_data_series(data_series) with the caller's dict o.
AddSingleDataSeries(o) ==
    /\ pc = "idle"
    /\ Len(data_series_list) < MaxAdds
    /\ data_series_list' = Append(data_series_list, o)
    /\ data_series_queue' = Append(data_series_queue, o)
    /\ UNCHANGED <<heap, data_frame, pc, show_rev, last, fetch_log, failed_ever,
                   at_call, conv_vars, find_vars, fold_vars>>

\* get_df(show_revisions) is called.
GetDfCall(show_revisions) ==
    /\ pc = "idle"
    /\ pc' = "get_df"
    /\ show_rev' = show_revisions
    /\ at_call' = [queue |-> data_series_queue, fetched |-> Len(fetch_log)]
    /\ UNCHANGED <<heap, data_series_list, data_series_queue, data_frame, last,
                   fetch_log, failed_ever, conv_vars, find_vars, fold_vars>>

\* Mutant of QueuePop: the first queued dict is taken, the last one removed.
QueuePopFirstItem(queue) ==
    [item |-> queue[1], rest |-> SubSeq(queue, 1, Len(queue) - 1)]

\* self._data_series_queue.pop(): the last element, and the queue without it.
QueuePop(queue) ==
    [item |-> queue[Len(queue)], rest |-> SubSeq(queue, 1, Len(queue) - 1)]

\* Mutant of GetDfFetch: the dict leaves the queue only once its points are
\* fetched, so a dict whose fetch raised is still queued.
GetDfFetchPopAfter(r) ==
    /\ pc = "get_df"
    /\ data_series_queue # <<>>
    /\ LET o == QueuePop(data_series_queue).item
           marked == IF show_rev
                     THEN [heap EXCEPT ![o].show_revisions = TRUE] ELSE heap
           res == GetDataPoints(marked[o], r)
       IN  /\ heap' = marked
           /\ fetch_log' = Append(fetch_log, [obj |-> o, answer |-> r])
           /\ IF res.outcome = "raised"
              THEN /\ pc' = "idle"
                   /\ last' = "raised"
                   /\ failed_ever' = TRUE
                   /\ UNCHANGED <<data_frame, data_series_queue>>
              ELSE /\ data_frame' = AddPointsToDf(data_frame, marked[o], res.points)
                   /\ data_series_queue' = QueuePop(data_series_queue).rest
                   /\ UNCHANGED <<pc, last, failed_ever>>
    /\ UNCHANGED <<data_series_list, show_rev, at_call, conv_vars, find_vars, fold_vars>>

\* One turn of get_df's while loop: the last queued dict is popped, marked
\* when revisions are asked for, its points are fetched (the server
\* answering r) and folded into the data frame; an exception leaves get_df.
GetDfFetch(r) ==
    /\ pc = "get_df"
    /\ data_series_queue # <<>>
    /\ LET o == QueuePop(data_series_queue).item
           marked == IF show_rev
                     THEN [heap EXCEPT ![o].show_revisions = TRUE] ELSE heap
           res == GetDataPoints(marked[o], r)
       IN  /\ data_series_queue' = QueuePop(data_series_queue).rest
           /\ heap' = marked
           /\ fetch_log' = Append(fetch_log, [obj |-> o, answer |-> r])
           /\ IF res.outcome = "raised"
              THEN /\ pc' = "idle"
                   /\ last' = "raised"
                   /\ failed_ever' = TRUE
                   /\ UNCHANGED data_frame
              ELSE /\ data_frame' = AddPointsToDf(data_frame, marked[o], res.points)
                   /\ UNCHANGED <<pc, last, failed_ever>>
    /\ UNCHANGED <<data_series_list, show_rev, at_call, conv_vars, find_vars, fold_vars>>

\* The queue is empty: get_df returns self._data_frame.
GetDfReturn ==
    /\ pc = "get_df"
    /\ data_series_queue = <<>>
    /\ pc' = "idle"
    /\ last' = "returned"
    /\ UNCHANGED <<heap, data_series_list, data_series_queue, data_frame,
                   show_rev, fetch_log, failed_ever, at_call, conv_vars, find_vars, fold_vars>>

NextAcc ==
    \/ \E o \in SeriesObjs : AddSingleDataSeries(o)
    \/ \E show_revisions \in BOOLEAN : GetDfCall(show_revisions)
    \/ \E r \in Responses : GetDfFetch(r)
    \/ GetDfReturn

-----------------------------------------------------------------------------
(* Specifications                                                          *)

\* The accumulator under any sequence of calls.
-----------------------------------------------------------------------------
\* add_data_series

\* A dict that find_data_series yields is a new object: it gets the first
\* free place of the heap.
NewObj(hp) == Cardinality(DOMAIN hp) + 1

Alloc(hp, ds) ==
    [o \in DOMAIN hp \cup {NewObj(hp)} |-> IF o \in DOMAIN hp THEN hp[o] ELSE ds]

\* add_single_data_series for each of the dicts of found, in order.
RECURSIVE AddEach(_, _, _, _)
AddEach(found, hp, list, queue) ==
    IF found = <<>>
    THEN [heap |-> hp, list |-> list, queue |-> queue]
    ELSE AddEach(Tail(found), Alloc(hp, Head(found)),
                 Append(list, NewObj(hp)), Append(queue, NewObj(hp)))

\* Mutant of AddDataSeries: the for loop has no return in its body, so every
\* yielded series is added.
AddDataSeriesEveryResult(kw, failing, hp, list, queue) ==
    LET found == FindDataSeries(kw, failing)
    IN  IF found.outcome = "raised"
        THEN [outcome |-> "raised", lookups |-> found.lookups, taken |-> <<>>,
              heap |-> hp, list |-> list, queue |-> queue]
        ELSE LET added == AddEach(found.yielded, hp, list, queue)
             IN  [outcome |-> "returned", lookups |-> found.lookups,
                  taken |-> found.yielded,
                  heap |-> added.heap, list |-> added.list,
                  queue |-> added.queue]

\* add_data_series(**kwargs): the generator is advanced once; what it yields
\* is added and the method returns inside the loop body.  A generator that
\* ends without a yield skips the body; an exception of the generator leaves
\* add_data_series.
AddDataSeries(kw, failing, hp, list, queue) ==
    LET found == FindDataSeries(kw, failing)
    IN  IF found.outcome = "raised"
        THEN [outcome |-> "raised", lookups |-> found.lookups, taken |-> <<>>,
              heap |-> hp, list |-> list, queue |-> queue]
        ELSE LET first == SubSeq(found.yielded, 1,
                                 IF found.yielded = <<>> THEN 0 ELSE 1)
                 added == AddEach(first, hp, list, queue)
             IN  [outcome |-> "returned", lookups |-> found.lookups,
                  taken |-> first,
                  heap |-> added.heap, list |-> added.list,
                  queue |-> added.queue]

\* The client before the call: fresh, or after add_single_data_series of
\* dicts 1 and 3 with a get_df in between that fetched no points for 1.
InitAddVars ==
    /\ heap = [o \in SeriesObjs |-> Descriptor(o)]
    /\ \/ data_series_list = <<>> /\ data_series_queue = <<>>
       \/ data_series_list = <<1, 3>> /\ data_series_queue = <<3>>
    /\ data_frame = EmptyFrame
    /\ pc = "idle"
    /\ show_rev = FALSE
    /\ last = "none"
    /\ fetch_log = <<>>
    /\ failed_ever = FALSE
    /\ at_call = [queue |-> <<>>, fetched |-> 0]

AddDataSeriesCall ==
    /\ find_pc = "ready"
    /\ LET res == AddDataSeries(kwargs, fail_at, heap, data_series_list,
                                data_series_queue)
       IN  /\ find_pc' = res.outcome
           /\ lookups' = res.lookups
           /\ yielded' = res.taken
           /\ heap' = res.heap
           /\ data_series_list' = res.list
           /\ data_series_queue' = res.queue
    /\ UNCHANGED <<kwargs, search_len, fail_at, data_frame, pc, show_rev, last,
                   fetch_log, failed_ever, at_call, conv_vars, fold_vars>>

NextAddSeries == AddDataSeriesCall

-----------------------------------------------------------------------------
\* get_df's loop as a function of the fetch order

MaxBatches == 3     \* at most this many series are pending

\* The answers that do not raise.
FoldResponses == {"empty", "one", "two"}

\* A pending dict, with or without a show_revisions key set to True, and the
\* server's answer to its request.
BatchSet ==
    {[ds |-> [Descriptor(o) EXCEPT !.show_revisions = f], answer |-> r] :
        <<o, f, r>> \in SeriesObjs \X BOOLEAN \X FoldResponses}

Perms(n) ==
    {p \in [1 .. n -> 1 .. n] : \A i, j \in 1 .. n : p[i] = p[j] => i = j}

Permute(bs, p) == [i \in 1 .. Len(bs) |-> bs[p[i]]]

\* The turns of get_df's while loop over bs, the first of bs fetched first.
RECURSIVE FoldFrom(_, _)
FoldFrom(bs, df) ==
    IF bs = <<>> THEN df
    ELSE FoldFrom(Tail(bs),
                  AddPointsToDf(df, Head(bs).ds,
                      GetDataPoints(Head(bs).ds, Head(bs).answer).points))

FoldUnused == batches = <<>> /\ fold_order = <<>> /\ folded = None

InitFoldVars ==
    /\ \E n \in 1 .. MaxBatches :
          /\ batches \in [1 .. n -> BatchSet]
          /\ fold_order \in Perms(n)
    /\ folded = None

\* get_df on a new client, once for each of the two fetch orders.
FoldBoth ==
    /\ folded = None
    /\ batches # <<>>
    /\ folded' = <<[given |-> FoldFrom(batches, EmptyFrame),
                    permuted |-> FoldFrom(Permute(batches, fold_order),
                                          EmptyFrame)]>>
    /\ UNCHANGED <<batches, fold_order, conv_vars, find_vars, acc_vars>>

NextFold == FoldBoth

-----------------------------------------------------------------------------
Init == InitAccVars /\ ConvUnused /\ FindUnused /\ FoldUnused
Next == NextAcc
Spec == Init /\ [][Next]_vars

\* convert_unit applied, up to MaxConvertCalls times in a row, to any point.
InitConvert == InitConvertVars /\ InitAccVars /\ FindUnused /\ FoldUnused
SpecConvert == InitConvert /\ [][NextConvert]_vars

\* find_data_series called once with any queries, search results and failure.
InitFind == InitFindVars /\ InitAccVars /\ ConvUnused /\ FoldUnused
SpecFind == InitFind /\ [][NextFind]_vars

\* add_data_series called once with any queries, search results and failure.
InitAddSeries == InitFindVars /\ InitAddVars /\ ConvUnused /\ FoldUnused
SpecAddSeries == InitAddSeries /\ [][NextAddSeries]_vars

\* The pending series folded into the table in two orders.
InitFold == InitFoldVars /\ InitAccVars /\ ConvUnused /\ FindUnused
SpecFold == InitFold /\ [][NextFold]_vars

-----------------------------------------------------------------------------
(* Properties of find_data_series, checked under SpecFind                  *)

QuerySupplied(d) == kwargs[d] # None /\ kwargs[d] # <<"">>

SuppliedCount == Cardinality({d \in DimSet : QuerySupplied(d)})

\* How many search results of a dimension take part: the first D.
PoolSize(d) ==
    IF search_len[d] < MAX_RESULT_COMBINATION_DEPTH THEN search_len[d]
    ELSE MAX_RESULT_COMBINATION_DEPTH

\* The product of the pool sizes of the supplied dimensions from the i-th on.
RECURSIVE PoolsFrom(_)
PoolsFrom(i) ==
    IF i > Len(Dims) THEN 1
    ELSE (IF QuerySupplied(Dims[i]) THEN PoolSize(Dims[i]) ELSE 1)
         * PoolsFrom(i + 1)

RECURSIVE Power(_, _)
Power(b, e) == IF e = 0 THEN 1 ELSE b * Power(b, e - 1)

\* The n-th combination of the dimension-major enumeration: the rank in its
\* dimension's search results of the entity it holds for the i-th dimension.
RankIn(i, n) == (((n - 1) \div PoolsFrom(i + 1)) % PoolSize(Dims[i])) + 1

ExpectedLookup(n) ==
    [key \in {KeyOf(Dims[i]) : i \in {j \in 1 .. Len(Dims) : QuerySupplied(Dims[j])}} |->
        LET i == CHOOSE j \in 1 .. Len(Dims) : KeyOf(Dims[j]) = key
        IN  EntityAt(Dims[i], RankIn(i, n))]

\* C1: with at least one name query supplied, the entity combinations passed
\* to get_data_series are, in order, the Cartesian product of the first D
\* search results of each supplied dimension, item varying slowest and
\* partner_region fastest, each dimension in its search ranking order; so a
\* call that returns has made exactly that product's lookups, at most D^k,
\* and a call a lookup aborted has made the first of them.
C1_LookupsAreProduct ==
    (find_pc # "ready" /\ SuppliedCount >= 1) =>
        /\ Len(lookups) <= PoolsFrom(1)
        /\ PoolsFrom(1) <= Power(MAX_RESULT_COMBINATION_DEPTH, SuppliedCount)
        /\ SuppliedCount = 2 => Len(lookups) <= 9
        /\ \A n \in 1 .. Len(lookups) : lookups[n] = ExpectedLookup(n)
        /\ find_pc = "returned" => Len(lookups) = PoolsFrom(1)
        /\ find_pc = "raised" => Len(lookups) = fail_at

\* Witness of C1: item and metric supplied with four results each give the
\* nine combinations of the first three, the second one being the first
\* item with the second metric.
C1_Witness ==
    /\ find_pc = "returned"
    /\ {d \in DimSet : QuerySupplied(d)} = {"item", "metric"}
    /\ search_len["item"] = 4 /\ search_len["metric"] = 4
    /\ Len(lookups) = 9
    /\ lookups[2] = [item_id |-> EntityAt("item", 1),
                     metric_id |-> EntityAt("metric", 2)]
    /\ lookups[9] = [item_id |-> EntityAt("item", 3),
                     metric_id |-> EntityAt("metric", 3)]

\* C2, as claimed: with no name query supplied (and no lookup failing) no
\* combination is formed, get_data_series is never called and nothing is
\* yielded.
C2_NoQueryNoLookup ==
    (find_pc # "ready" /\ SuppliedCount = 0 /\ fail_at = 0) =>
        lookups = <<>> /\ yielded = <<>>

\* C3, as claimed: when one get_data_series call of a sweep over two or more
\* combinations fails, the sweep is not aborted: find_data_series returns
\* and every combination was looked up.
C3_SweepSurvivesFailure ==
    (find_pc # "ready" /\ SuppliedCount >= 1 /\ fail_at >= 1
        /\ Len(Product(SearchResults(kwargs))) >= 2
        /\ fail_at <= Len(Product(SearchResults(kwargs)))) =>
        /\ find_pc = "returned"
        /\ Len(lookups) = Len(Product(SearchResults(kwargs)))

-----------------------------------------------------------------------------
(* Properties of convert_unit, checked under SpecConvert                   *)

\* The units of the catalogue without a usable factor: 5 (zero), 6 (absent).
NonConvertibleUnits == {5, 6}

Calls == {conv_hist[i] : i \in DOMAIN conv_hist}

NeedsConversion(c) ==
    ~IsNone(c.before.unit_id) /\ c.before.unit_id # <<c.target>>

\* C4: a point with a unit other than the target is refused with an error
\* whenever its unit or the target unit has no factor or a zero factor, and
\* the point is left as it was: same value, same unit_id.
C4_NonConvertibleRaises ==
    \A c \in Calls :
        (NeedsConversion(c)
            /\ (c.before.unit_id[1] \in NonConvertibleUnits
                \/ c.target \in NonConvertibleUnits)) =>
            c.outcome = "raised" /\ c.after = c.before

\* Witness of C4: a point with a value in a convertible unit, asked into a
\* unit whose factor is zero.
C4_Witness ==
    \E c \in Calls :
        /\ c.before.unit_id = <<1>> /\ c.target = 5
        /\ ~IsNone(c.before.value)
        /\ c.outcome = "raised"

FactorOfUnit(u) == LookupUnit(u).factor
OffsetOrZero(u) ==
    IF LookupUnit(u).offset = None THEN <<0, 1>> ELSE LookupUnit(u).offset

\* C5: a point with a value, in a unit other than the target, both units
\* with a non-zero factor, comes back with unit_id the target, the other
\* fields as they were, and the value v' for which
\* v' * to.factor + to.offset = v * from.factor + from.offset (a missing
\* offset being 0); 100 in unit 1 (factor 1000) is 100000 in unit 2 (factor 1).
C5_ConvertedValue ==
    \A c \in Calls :
        (NeedsConversion(c) /\ ~IsNone(c.before.value)
            /\ c.before.unit_id[1] \notin NonConvertibleUnits
            /\ c.target \notin NonConvertibleUnits) =>
            /\ c.outcome = "returned"
            /\ c.after.unit_id = <<c.target>>
            /\ DOMAIN c.after = DOMAIN c.before
            /\ c.after.end_date = c.before.end_date
            /\ RAdd(RMul(c.after.value, FactorOfUnit(c.target)),
                    OffsetOrZero(c.target))
               = RAdd(RMul(c.before.value, FactorOfUnit(c.before.unit_id[1])),
                      OffsetOrZero(c.before.unit_id[1]))
            /\ (c.before.value = <<100, 1>> /\ c.before.unit_id = <<1>>
                    /\ c.target = 2) => c.after.value = <<100000, 1>>

\* Witness of C5: 100 in unit 1 converted to unit 2, then on to unit 3, whose
\* factor is a fraction and whose offset is not 0.
C5_Witness ==
    /\ Len(conv_hist) >= 2
    /\ conv_hist[1].before.value = <<100, 1>>
    /\ conv_hist[1].before.unit_id = <<1>>
    /\ conv_hist[1].target = 2
    /\ conv_hist[1].after.value = <<100000, 1>>
    /\ conv_hist[1].after.unit_id = <<2>>
    /\ conv_hist[2].target = 3
    /\ conv_hist[2].outcome = "returned"
    /\ conv_hist[2].after.unit_id = <<3>>

\* C6: a point without unit_id, or already in the target unit, is returned
\* as it is, and no unit is looked up, so the call cannot fail even for a
\* unit that cannot be converted.
C6_IdentityCase ==
    \A c \in Calls :
        (IsNone(c.before.unit_id) \/ c.before.unit_id = <<c.target>>) =>
            c.outcome = "returned" /\ c.after = c.before /\ c.looked_up = <<>>

\* Witness of C6: a point in the zero-factor unit 5 asked into unit 5 and
\* then, still the same, asked into unit 5 again.
C6_Witness ==
    /\ Len(conv_hist) >= 2
    /\ \A i \in 1 .. 2 :
        /\ conv_hist[i].before.unit_id = <<5>> /\ conv_hist[i].target = 5
        /\ ~IsNone(conv_hist[i].before.value)
        /\ conv_hist[i].outcome = "returned"

\* C7: for units A and B with non-zero factors, a point in unit A converted
\* to B and then back to A is the point it was: value, unit_id and the rest.
C7_RoundTrip ==
    \A i \in 1 .. Len(conv_hist) - 1 :
        LET c1 == conv_hist[i]
            c2 == conv_hist[i + 1]
        IN  (~IsNone(c1.before.unit_id)
                /\ c1.before.unit_id[1] \notin NonConvertibleUnits
                /\ c1.target \notin NonConvertibleUnits
                /\ c2.target = c1.before.unit_id[1]) =>
                /\ c1.outcome = "returned" /\ c2.outcome = "returned"
                /\ c2.before = c1.after
                /\ c2.after = c1.before

\* Witness of C7: -3/2 in unit 3 (factor 5/9, offset 32) taken to unit 1
\* (factor 1000) and back.
C7_Witness ==
    /\ Len(conv_hist) >= 2
    /\ conv_hist[1].before.unit_id = <<3>> /\ conv_hist[1].target = 1
    /\ conv_hist[1].before.value = <<-3, 2>>
    /\ conv_hist[1].after.value # conv_hist[1].before.value
    /\ conv_hist[2].target = 3
    /\ conv_hist[2].after = conv_hist[1].before

-----------------------------------------------------------------------------
(* Properties of the accumulator, checked under Spec                       *)

Occurrences(seq, x) == Cardinality({i \in DOMAIN seq : seq[i] = x})

\* The dicts fetched, in order, from the n-th fetch on.
FetchedFrom(log, n) == [i \in 1 .. (Len(log) - n + 1) |-> log[n + i - 1].obj]

\* The selected series as get_data_series_list shows them: the dicts.
ListContents == [i \in DOMAIN data_series_list |-> heap[data_series_list[i]]]

IdentifyingKey(row) == Restrict(row, data_frame.cols \cap DATA_POINTS_UNIQUE_COLS)

\* C8, as claimed: the accumulated table never holds two rows with the same
\* identifying key; stated for the runs in which the server gives every
\* request the same one point.
C8_UniqueIdentifyingKeys ==
    (\A i \in DOMAIN fetch_log : fetch_log[i].answer = "one") =>
    /\ \A row \in DOMAIN data_frame.rows : data_frame.rows[row] = 1
    /\ \A r1, r2 \in DOMAIN data_frame.rows :
           IdentifyingKey(r1) = IdentifyingKey(r2) => r1 = r2

\* The step in which a fetch raises out of get_df.
FetchFails == pc = "get_df" /\ pc' = "idle" /\ last' = "raised"

\* C9, as claimed: a fetch that fails inside get_df is raised to the caller
\* and leaves the accumulated table and the selected-series list as they
\* were.
C9_FailureKeepsState ==
    [][FetchFails => (data_frame' = data_frame /\ ListContents' = ListContents)]_vars

AddStep == Len(data_series_list') = Len(data_series_list) + 1
NormalReturn == pc = "get_df" /\ pc' = "idle" /\ last' = "returned"

\* C10: add_single_data_series appends its argument to the end of the list
\* and of the queue and leaves the table alone; a get_df that returns leaves
\* the queue empty and has fetched what was queued when it was called, each
\* occurrence once; and as long as no fetch has failed, every occurrence
\* added is either still queued or was fetched exactly once.
C10_EachAddedFetchedOnce ==
    [][/\ AddStep =>
           \E o \in SeriesObjs :
               /\ data_series_list' = Append(data_series_list, o)
               /\ data_series_queue' = Append(data_series_queue, o)
               /\ data_frame' = data_frame
       /\ NormalReturn =>
           /\ data_series_queue' = <<>>
           /\ \A o \in SeriesObjs :
                  Occurrences(at_call.queue, o) =
                  Occurrences(FetchedFrom(fetch_log', at_call.fetched + 1), o)
       /\ ~failed_ever' =>
           \A o \in SeriesObjs :
               Occurrences(data_series_list', o) =
               Occurrences(FetchedFrom(fetch_log', 1), o)
               + Occurrences(data_series_queue', o)
      ]_vars

\* Witness of C10: the same dict added twice around a get_df, both
\* occurrences fetched by two get_df calls that returned.
C10_Witness ==
    /\ pc = "idle" /\ last = "returned" /\ ~failed_ever
    /\ data_series_list = <<1, 1>>
    /\ data_series_queue = <<>>
    /\ FetchedFrom(fetch_log, 1) = <<1, 1>>
    /\ at_call.fetched = 1

FetchStep == Len(fetch_log') = Len(fetch_log) + 1

\* C13: get_df takes a series off the pending queue before it fetches it.
\* When the fetch fails the series is no longer pending, the series queued
\* behind it still are, it is still in the selected-series list and the
\* table is as it was; and since only a series taken off the queue is ever
\* fetched, every occurrence added is fetched at most once, failed or not:
\* a later get_df does not try the failed series again unless it was added
\* again.
C13_FailedFetchNotRetried ==
    [][/\ FetchFails =>
           LET o == data_series_queue[Len(data_series_queue)]
           IN  /\ fetch_log'[Len(fetch_log')].obj = o
               /\ data_series_queue' =
                      SubSeq(data_series_queue, 1, Len(data_series_queue) - 1)
               /\ data_series_list' = data_series_list
               /\ Occurrences(data_series_list', o) >= 1
               /\ data_frame' = data_frame
       /\ FetchStep =>
           /\ data_series_queue # <<>>
           /\ fetch_log'[Len(fetch_log')].obj =
                  data_series_queue[Len(data_series_queue)]
           /\ Len(data_series_queue') = Len(data_series_queue) - 1
       /\ \A o \in SeriesObjs :
              Occurrences(data_series_list', o) =
              Occurrences(FetchedFrom(fetch_log', 1), o)
              + Occurrences(data_series_queue', o)
      ]_vars

\* Witness of C13: dicts 1 and 3 were added; the fetch of 3 failed and left
\* 1 pending; a second get_df fetched 1 alone and returned, so the list
\* still holds 3 and the table holds no row of its item.
C13_Witness ==
    /\ pc = "idle" /\ last = "returned" /\ failed_ever
    /\ data_series_list = <<1, 3>>
    /\ data_series_queue = <<>>
    /\ fetch_log = <<[obj |-> 3, answer |-> "fail"], [obj |-> 1, answer |-> "two"]>>
    /\ DOMAIN data_frame.rows # {}
    /\ \A row \in DOMAIN data_frame.rows : row.item_id = <<274>>

AddReturns == find_pc = "ready" /\ find_pc' = "returned"

\* C12: when add_data_series returns, list and queue are what they were,
\* followed by one and the same new dict which is the first series that
\* find_data_series yields for these arguments; nothing else is added, no
\* dict already there is changed and the table is untouched.  When
\* find_data_series yields nothing, add_data_series returns with list,
\* queue and table unchanged.
C12_AddsFirstResultOnly ==
    [][AddReturns =>
        LET found == FindDataSeries(kwargs, fail_at).yielded
            n == Len(data_series_list)
            q == Len(data_series_queue)
        IN  /\ data_frame' = data_frame
            /\ \A o \in DOMAIN heap : o \in DOMAIN heap' /\ heap'[o] = heap[o]
            /\ IF found = <<>>
               THEN /\ data_series_list' = data_series_list
                    /\ data_series_queue' = data_series_queue
                    /\ heap' = heap
               ELSE /\ Len(data_series_list') = n + 1
                    /\ SubSeq(data_series_list', 1, n) = data_series_list
                    /\ Len(data_series_queue') = q + 1
                    /\ SubSeq(data_series_queue', 1, q) = data_series_queue
                    /\ data_series_queue'[q + 1] = data_series_list'[n + 1]
                    /\ data_series_list'[n + 1] \notin DOMAIN heap
                    /\ DOMAIN heap' = DOMAIN heap \cup {data_series_list'[n + 1]}
                    /\ heap'[data_series_list'[n + 1]] = found[1]
      ]_vars

\* Witness of C12: several lookups found several series, the stamped
\* top-ranked one was added behind what the client held, the others were not.
C12_Witness ==
    /\ find_pc = "returned"
    /\ Len(lookups) >= 2
    /\ Len(FindDataSeries(kwargs, fail_at).yielded) >= 3
    /\ data_series_list = <<1, 3, 4>>
    /\ data_series_queue = <<3, 4>>
    /\ DOMAIN heap = 1 .. 4
    /\ heap[4] = FindDataSeries(kwargs, fail_at).yielded[1]
    /\ heap[4].source_id = 2
    /\ heap[4].start_date = <<"2000-01-01">>

\* Witness of C12, no series found: the call returned after a lookup that
\* found nothing and the client holds what it held.
C12_WitnessNothingFound ==
    /\ find_pc = "returned"
    /\ Len(lookups) >= 1
    /\ yielded = <<>>
    /\ data_series_list = <<1, 3>>
    /\ data_series_queue = <<3>>
    /\ DOMAIN heap = SeriesObjs

\* C11: for any pending series with fixed answers, series of different
\* column sets and series without points included, folding them in any
\* order gives a table of the same columns and the same set of rows.
C11_FoldOrderIndependent ==
    folded # None =>
        /\ folded[1].given.cols = folded[1].permuted.cols
        /\ DOMAIN folded[1].given.rows = DOMAIN folded[1].permuted.rows

=============================================================================
